---------------------------- MODULE Spec2Model ----------------------------
(***************************************************************************)
(* Model of the Trilinos adapter layer:                                    *)
(*   - Belos::MueLuEpetraPrecOp  (BelosMueLuAdapter.hpp): a MueLu          *)
(*     Hierarchy presented as a Belos::Operator;                           *)
(*   - Amesos::MatrixAdapter<Tpetra::CrsMatrix> as exercised by            *)
(*     Tpetra_CrsMatrix_Adapter_UnitTests.cpp.                             *)
(* SpecApply is the operator adapter; Spec is the extraction (getCrs,       *)
(* getCcs) with the collective call taken as one step, SpecCollective the  *)
(* same call process by process, SpecDimensions the dimension queries.     *)
(* SpecFrame runs the concrete Apply and the extractions side by side.     *)
(***************************************************************************)
EXTENDS Integers, Sequences, FiniteSets, TLC

VARIABLES
  \* ---- operator adapter (MueLuEpetraPrecOp) ----
  entry,      \* entry point of the last Apply call: "none", "Epetra", "MultiVec"
  trans,      \* transpose mode of the last call
  xPre,       \* x as the caller passed it
  yPre,       \* y as the caller passed it
  same,       \* whether the caller passed one object as both x and y
  x,          \* x after the call
  y,          \* y after the call
  err,        \* outcome of the last call
  iterCalls,  \* the Hierarchy_->Iterate invocations made by the last call
  Hierarchy_, \* the wrapped hierarchy
  \* ---- matrix adapter (MatrixAdapter<Tpetra::CrsMatrix>) ----
  logical,    \* the matrix as the caller inserted it: dimensions and entries
  mat,        \* the fill-completed distributed matrix the adapter wraps
  op,         \* the extraction called: "none", "Crs", "Ccs"
  phase,      \* "constructed" until the extraction call has ended, then "extracted"
  exErr,      \* outcome of the extraction on the root
  out,        \* the root's buffers (nzval, ind, ptr) and nnz, as the call left them
  run,        \* 1 in the first run, 2 in a second run on the same logical matrix
  prev,       \* what the first run extracted, once a second run has started
  pc,         \* per process: "idle", "in" (inside the collective), "returned"
  adapters,   \* the adapters constructed, each with the matrix it references
  dims        \* the last Dimensions query: process, adapter, values reported

applyVars == <<entry, trans, xPre, yPre, same, x, y, err, iterCalls, Hierarchy_>>

matVars == <<logical, mat>>

extractVars == <<op, phase, exErr, out, run, prev>>

dimVars == <<adapters, dims>>

vars == <<applyVars, matVars, extractVars, pc, dimVars>>

-----------------------------------------------------------------------------
(* Operator adapter: src/packages/muelu/src/MueCentral/BelosMueLuAdapter.hpp *)

\* Number of entries of a multivector.
VecLen == 2

\* Values a vector entry takes; 7 plays the poison value.
Scalars == {0, 7}

\* Belos::ETrans
NOTRANS == "NOTRANS"
ETrans == {NOTRANS, "TRANS", "CONJTRANS"}

\* The data of an Epetra_MultiVector.
VecData == [1..VecLen -> Scalars]

\* A Belos::MultiVec<double> with its dynamic type: Belos::EpetraMultiVec
\* derives from Epetra_MultiVector, any other implementation does not.
MultiVec == [kind : {"EpetraMultiVec", "OtherMultiVec"}, data : VecData]

\* Epetra_MultiVector operands of the concrete entry point.
EpetraVec == {v \in MultiVec : v.kind = "EpetraMultiVec"}

\* The two failures are both EpetraOpFailure; they differ in the message:
\* "transpose mode != NOTRANS not supported" and "cannot be dynamic cast".
UnsupportedOperation == "UnsupportedOperation"
InterfaceMismatch == "InterfaceMismatch"

\* A hierarchy either honours InitialGuessIsZero or ignores it.
Hierarchies == [honoursInitialGuessIsZero : BOOLEAN]

ZeroVec == [i \in 1..VecLen |-> 0]

\* eY.putScalar(0.0)
putScalar(yd, s) == [i \in DOMAIN yd |-> s]

\* One cycle of the hierarchy: a damped correction of the initial guess.
Cycle(X, Y0) == [i \in DOMAIN X |-> X[i] - Y0[i]]

RECURSIVE Cycles(_, _, _)
Cycles(X, Y0, n) == IF n = 0 THEN Y0 ELSE Cycles(X, Cycle(X, Y0), n - 1)

\* MueLu::Hierarchy::Iterate(X, nIts, Y, InitialGuessIsZero): overwrites Y.
Iterate(H, X, nIts, Y0, InitialGuessIsZero) ==
  LET guess == IF H.honoursInitialGuessIsZero /\ InitialGuessIsZero
               THEN [i \in DOMAIN Y0 |-> 0] ELSE Y0
  IN  Cycles(X, guess, nIts)

\* An Iterate invocation as the hierarchy sees it.
IterCall(X, nIts, Y0, flag) == [X |-> X, nIts |-> nIts, Y |-> Y0, InitialGuessIsZero |-> flag]

\* The result of an Apply call: the failure if any, the operands afterwards,
\* the Iterate invocations made.
Outcome(e, xd, yd, calls) == [err |-> e, x |-> xd, y |-> yd, calls |-> calls]

\* What a call leaves in x: x and y are wrapped by reference (rcpFromRef), so
\* when the caller passed one object as both, what is written to y is written
\* to x.
After(same_, xd, yd) == IF same_ THEN yd ELSE xd

\* Apply without the transpose test.
ApplyEpetraNoTransTest(H, xd, yd, t, same_) ==
  LET eY == putScalar(yd, 0)
      eX == After(same_, xd, eY)
      res == Iterate(H, eX, 1, eY, TRUE)
  IN  Outcome("none", After(same_, xd, res), res, <<IterCall(eX, 1, eY, TRUE)>>)

\* Apply without eY.putScalar(0.0).
ApplyEpetraNoPutScalar(H, xd, yd, t, same_) ==
  IF t # NOTRANS
  THEN Outcome(UnsupportedOperation, xd, yd, <<>>)
  ELSE LET res == Iterate(H, xd, 1, yd, TRUE)
       IN  Outcome("none", After(same_, xd, res), res, <<IterCall(xd, 1, yd, TRUE)>>)

\* Apply writing through temp_x, the const_cast of x.
ApplyEpetraWritesX(H, xd, yd, t, same_) ==
  IF t # NOTRANS
  THEN Outcome(UnsupportedOperation, xd, yd, <<>>)
  ELSE LET eY == putScalar(yd, 0)
           eX == putScalar(xd, 0)
           res == Iterate(H, eX, 1, eY, TRUE)
       IN  Outcome("none", After(same_, eX, res), res, <<IterCall(eX, 1, eY, TRUE)>>)

\* Apply(const Epetra_MultiVector& x, Epetra_MultiVector& y, ETrans trans):
\* eX and eY wrap the caller's x and y, eY.putScalar(0.0) writes through eY,
\* and Iterate reads eX after that.
ApplyEpetra(H, xd, yd, t, same_) ==
  IF t # NOTRANS
  THEN Outcome(UnsupportedOperation, xd, yd, <<>>)
  ELSE LET eY == putScalar(yd, 0)
           eX == After(same_, xd, eY)
           res == Iterate(H, eX, 1, eY, TRUE)
       IN  Outcome("none", After(same_, xd, res), res, <<IterCall(eX, 1, eY, TRUE)>>)

\* dynamic_cast<Epetra_MultiVector*>(&v): TRUE when the cast gives non-NULL.
DynamicCastOk(v) == v.kind = "EpetraMultiVec"

\* The generic Apply forwarding with the default transpose mode.
ApplyMultiVecDropsTrans(H, xv, yv, t, same_) ==
  IF ~DynamicCastOk(xv) \/ ~DynamicCastOk(yv)
  THEN Outcome(InterfaceMismatch, xv.data, yv.data, <<>>)
  ELSE ApplyEpetra(H, xv.data, yv.data, NOTRANS, same_)

\* Apply(const Belos::MultiVec<double>& x, Belos::MultiVec<double>& y, ETrans trans)
ApplyMultiVec(H, xv, yv, t, same_) ==
  IF ~DynamicCastOk(xv) \/ ~DynamicCastOk(yv)
  THEN Outcome(InterfaceMismatch, xv.data, yv.data, <<>>)
  ELSE ApplyEpetra(H, xv.data, yv.data, t, same_)

-----------------------------------------------------------------------------
(* Matrix adapter:                                                         *)
(* src/packages/amesos2/test/adapters/Tpetra_CrsMatrix_Adapter_UnitTests.cpp *)

\* Largest number of rows and of columns of the generated matrices.
MaxDim == 2

\* Largest number of entries of the generated matrices.
MaxEntries == 2

\* Largest number of processes of the communicator.
MaxProcs == 2

\* An entry is <<global row, global column, value>>.
Row(t) == t[1]
Col(t) == t[2]
Value(t) == t[3]

\* C arrays are sequences here: a[i] of the source is At(a, i).
At(a, i) == a[i + 1]

\* global_size_t nrows = 6
nrows == 6

\* The insertGlobalValues calls of the CRS and CCS tests.
TestInserts ==
  {<<0, 0, 7>>, <<0, 2, -3>>, <<0, 4, -1>>,
   <<1, 0, 2>>, <<1, 1, 8>>,
   <<2, 2, 1>>,
   <<3, 0, -3>>, <<3, 3, 5>>,
   <<4, 1, -1>>, <<4, 4, 4>>,
   <<5, 3, -2>>, <<5, 5, 6>>}

\* The 6x6 matrix of the CRS and CCS tests.
TestMatrix == [nrows |-> nrows, ncols |-> nrows, entries |-> TestInserts]

\* The value stored at a position of a generated matrix.
Val(r, c) == 1 + ((r + c) % 2)

\* The generated matrices: every shape up to MaxDim x MaxDim, every choice of
\* at most MaxEntries positions (rows and columns without entries included).
SmallMatrices ==
  UNION {
    { [nrows |-> n, ncols |-> m, entries |-> {<<q[1], q[2], Val(q[1], q[2])>> : q \in S}] :
        S \in {T \in SUBSET ((0..(n - 1)) \X (0..(m - 1))) : Cardinality(T) <= MaxEntries} } :
    n \in 1..MaxDim, m \in 1..MaxDim }

\* Tpetra::createUniformContigMap(nrows, comm): contiguous blocks, the first
\* (n % np) processes holding one row more.
createUniformContigMap(n, np) ==
  LET q == n \div np
      rem == n % np
      first(p) == p * q + (IF p < rem THEN p ELSE rem)
  IN  [nprocs |-> np,
       owner |-> [r \in 0..(n - 1) |->
                    CHOOSE p \in 0..(np - 1) : first(p) <= r /\ r < first(p + 1)]]

\* Every assignment of the rows to the processes.
ArbitraryMaps(n) ==
  UNION { { [nprocs |-> np, owner |-> o] : o \in [0..(n - 1) -> 0..(np - 1)] } :
          np \in 1..MaxProcs }

\* The row maps a matrix is distributed over: the tests' uniform contiguous map
\* for the test matrix, any assignment for the generated ones.
RowMaps(M) ==
  IF M = TestMatrix
  THEN {createUniformContigMap(M.nrows, np) : np \in 1..MaxProcs}
  ELSE ArbitraryMaps(M.nrows)

\* insertGlobalValues called by every rank, without the test for rank 0.
InsertedOnEveryRank(pattern, M, map) ==
  [p \in 0..(map.nprocs - 1) |-> M.entries]

\* Who calls insertGlobalValues: rank 0 for every row (the CRS and CCS tests),
\* or each process for the rows it owns (the Initialization test).
InsertedOn(pattern, M, map) ==
  [p \in 0..(map.nprocs - 1) |->
     IF pattern = "rank0"
     THEN (IF p = 0 THEN M.entries ELSE {})
     ELSE {t \in M.entries : map.owner[Row(t)] = p}]

RECURSIVE SumOver(_, _)
SumOver(f, S) ==
  IF S = {} THEN 0
  ELSE LET e == CHOOSE e \in S : TRUE IN f[e] + SumOver(f, S \ {e})

\* mat->fillComplete(): every entry moves to the process that owns its row;
\* values inserted at the same position by several processes are summed.
fillComplete(M, map, inserted) ==
  LET ranks == 0..(map.nprocs - 1)
      all == UNION {inserted[q] : q \in ranks}
      positions == {<<Row(t), Col(t)>> : t \in all}
      from(q, pos) == SumOver([t \in inserted[q] |-> IF <<Row(t), Col(t)>> = pos THEN Value(t) ELSE 0],
                              inserted[q])
      merged == {<<pos[1], pos[2], SumOver([q \in ranks |-> from(q, pos)], ranks)>> :
                   pos \in positions}
  IN  [nrows |-> M.nrows, ncols |-> M.ncols, nprocs |-> map.nprocs, owner |-> map.owner,
       local |-> [p \in ranks |-> {t \in merged : map.owner[Row(t)] = p}]]

Procs(A) == 0..(A.nprocs - 1)

Max(S) == CHOOSE m \in S : \A k \in S : k <= m

\* Tpetra::CrsMatrix queries.
getNodeNumEntries(A, p) == Cardinality(A.local[p])
getGlobalNumEntries(A) == SumOver([p \in Procs(A) |-> getNodeNumEntries(A, p)], Procs(A))
getGlobalNumRows(A) == A.nrows
getGlobalNumCols(A) == A.ncols
getNodeNumRows(A, p) == Cardinality({r \in 0..(A.nrows - 1) : A.owner[r] = p})
getNodeNumCols(A, p) == Cardinality({Col(t) : t \in A.local[p]})
getGlobalMaxNumRowEntries(A) ==
  Max({Cardinality({t \in UNION {A.local[p] : p \in Procs(A)} : Row(t) = r}) :
       r \in 0..(A.nrows - 1)})

\* MatrixAdapter queries: each returns what the wrapped matrix reports.
getGlobalNNZ(A) == getGlobalNumEntries(A)
getLocalNNZ(A, p) == getNodeNumEntries(A, p)
getLocalNumRows(A, p) == getNodeNumRows(A, p)
getLocalNumCols(A, p) == getNodeNumCols(A, p)
getMaxNNZ(A) == getGlobalMaxNumRowEntries(A)

SizeMismatch == "SizeMismatch"

\* The rank that receives the assembled arrays.
Root == 0

RECURSIVE SortedSeq(_)
SortedSeq(S) ==
  IF S = {} THEN <<>>
  ELSE LET m == CHOOSE m \in S : \A k \in S : m <= k IN <<m>> \o SortedSeq(S \ {m})

\* Every order in which the elements of S can be stored.
Perms(S) ==
  {f \in [1..Cardinality(S) -> S] : \A i, j \in 1..Cardinality(S) : i # j => f[i] # f[j]}

\* The rows in the order their data reaches the root: process after process,
\* each process sending its rows in local order.
RECURSIVE ArrivalRows(_, _)
ArrivalRows(A, p) ==
  IF p >= A.nprocs THEN <<>>
  ELSE SortedSeq({r \in 0..(A.nrows - 1) : A.owner[r] = p}) \o ArrivalRows(A, p + 1)

\* The entries of the rows `rows` as they may arrive: the order of the entries
\* inside a row is not fixed.
RECURSIVE GatherRows(_, _)
GatherRows(A, rows) ==
  IF rows = <<>> THEN {<<>>}
  ELSE LET r == Head(rows)
           here == {t \in A.local[A.owner[r]] : Row(t) = r}
       IN  {h \o t : h \in Perms(here), t \in GatherRows(A, Tail(rows))}

\* What the gather may deliver to the root.
Gathers(A) == GatherRows(A, ArrivalRows(A, 0))

\* The gathered entries reconciled into global row order.
RECURSIVE InRowOrder(_, _, _)
InRowOrder(g, r, n) ==
  IF r >= n THEN <<>>
  ELSE LET InRow(t) == Row(t) = r
       IN  SelectSeq(g, InRow) \o InRowOrder(g, r + 1, n)

RECURSIVE Insert(_, _)
Insert(t, s) ==
  IF s = <<>> THEN <<t>>
  ELSE IF Row(t) < Row(Head(s)) THEN <<t>> \o s
  ELSE <<Head(s)>> \o Insert(t, Tail(s))

\* A column's entries sorted by row index.
RECURSIVE SortByRow(_)
SortByRow(s) == IF s = <<>> THEN <<>> ELSE Insert(Head(s), SortByRow(Tail(s)))

\* The gathered entries bucketed by column, each column sorted by row.
RECURSIVE InColOrder(_, _, _)
InColOrder(g, c, m) ==
  IF c >= m THEN <<>>
  ELSE LET InCol(t) == Col(t) = c
       IN  SortByRow(SelectSeq(g, InCol)) \o InColOrder(g, c + 1, m)

\* ptr[i] = number of entries whose key (row or column) is below i, i = 0..n.
Pointers(keys, n) ==
  [i \in 1..(n + 1) |-> Cardinality({k \in 1..Len(keys) : keys[k] < i - 1})]

Rows(g) == [k \in 1..Len(g) |-> Row(g[k])]
Cols(g) == [k \in 1..Len(g) |-> Col(g[k])]

\* Teuchos::Array<T>(n): n value-initialized elements.
Array(n) == [i \in 1..n |-> 0]

\* Writing `data` at the front of a buffer; the rest of the buffer is untouched.
WriteInto(buffer, data) ==
  [i \in 1..Len(buffer) |-> IF i <= Len(data) THEN data[i] ELSE buffer[i]]

\* The caller's buffers and its (unset) nnz.
Buffers(nv, ni, np) == [nzval |-> Array(nv), ind |-> Array(ni), ptr |-> Array(np), nnz |-> <<>>]

\* The extraction's result on the root: the failure if any and the buffers.
Extracted(e, b) == [err |-> e, out |-> b]

Fill(b, sorted, ptr) ==
  [nzval |-> WriteInto(b.nzval, [i \in 1..Len(sorted) |-> Value(sorted[i])]),
   ind   |-> WriteInto(b.ind, [i \in 1..Len(sorted) |-> IF ptr.byRow THEN Col(sorted[i]) ELSE Row(sorted[i])]),
   ptr   |-> WriteInto(b.ptr, ptr.ptr),
   nnz   |-> <<Len(sorted)>>]

\* getCrs writing whatever fits into buffers that are too short.
getCrsTruncating(A, b, g) ==
  LET sorted == InRowOrder(g, 0, A.nrows)
      fits == SubSeq(sorted, 1, IF Len(b.nzval) < Len(b.ind) THEN Len(b.nzval) ELSE Len(b.ind))
  IN  Extracted("none", Fill(b, fits, [byRow |-> TRUE, ptr |-> Pointers(Rows(g), A.nrows)]))

\* adapter->getCrs(nzvals, colind, rowptr, nnz), as the root sees it.
getCrs(A, b, g) ==
  IF \/ Len(b.nzval) < getGlobalNNZ(A)
     \/ Len(b.ind) < getGlobalNNZ(A)
     \/ Len(b.ptr) < getGlobalNumRows(A) + 1
  THEN Extracted(SizeMismatch, b)
  ELSE Extracted("none", Fill(b, InRowOrder(g, 0, A.nrows),
                              [byRow |-> TRUE, ptr |-> Pointers(Rows(g), A.nrows)]))

\* adapter->getCcs(nzvals, rowind, colptr, nnz), as the root sees it.
getCcs(A, b, g) ==
  IF \/ Len(b.nzval) < getGlobalNNZ(A)
     \/ Len(b.ind) < getGlobalNNZ(A)
     \/ Len(b.ptr) < getGlobalNumCols(A) + 1
  THEN Extracted(SizeMismatch, b)
  ELSE Extracted("none", Fill(b, InColOrder(g, 0, A.ncols),
                              [byRow |-> FALSE, ptr |-> Pointers(Cols(g), A.ncols)]))

\* ---- the unit tests' own code ----

\* a.view(offset, size)
view(a, offset, size) == SubSeq(a, offset + 1, offset + size)

\* zip(a, b): the pairs (a[i], b[i]) up to the shorter length.
zip(a, b) ==
  LET size == IF Len(a) < Len(b) THEN Len(a) ELSE Len(b)
  IN  [i \in 1..size |-> <<a[i], b[i]>>]

\* contains(a, t): std::find(first, last, t) != last
contains(a, t) == \E i \in 1..Len(a) : a[i] = t

\* Expected arrays of the CRS test.
nzvals_test == <<7, -3, -1, 2, 8, 1, -3, 5, -1, 4, -2, 6>>
colind_test == <<0, 2, 4, 0, 1, 2, 0, 3, 1, 4, 3, 5>>

\* Row pointers counting the entries of each row instead of accumulating them.
rowptr_counts == <<0, 3, 2, 1, 2, 2, 2>>

rowptr_test == <<0, 3, 5, 6, 8, 10, 12>>

\* Expected arrays of the CCS test.
nzvals_ccs_test == <<7, 2, -3, 8, -1, -3, 1, 5, -2, -1, 4, 6>>

\* Row indices listed in the order the entries were inserted.
rowind_insertion_order == <<0, 0, 0, 1, 1, 2, 3, 3, 4, 4, 5, 5>>

rowind_test == <<0, 1, 3, 1, 4, 0, 2, 3, 5, 0, 4, 5>>
colptr_test == <<0, 3, 5, 7, 9, 11, 12>>

\* The buffers the tests pass: getGlobalNNZ() values and indices,
\* getGlobalNumRows() + 1 pointers.
TestBuffers(A) == Buffers(getGlobalNNZ(A), getGlobalNNZ(A), getGlobalNumRows(A) + 1)

\* The checks rank 0 makes after getCrs.
CrsTestPasses(A, o) ==
  /\ \A row \in 0..(A.nrows - 1) :
       LET rp == At(o.ptr, row)
           nrp == At(o.ptr, row + 1)
           row_nnz == nrp - rp
           expected_pairs == zip(view(nzvals_test, rp, row_nnz), view(colind_test, rp, row_nnz))
           got_pairs == zip(view(o.nzval, rp, row_nnz), view(o.ind, rp, row_nnz))
       IN  /\ rp < Len(o.nzval)
           /\ rp < Len(o.ind)
           /\ row_nnz >= 0
           /\ rp + row_nnz <= Len(nzvals_test)
           /\ rp + row_nnz <= Len(o.nzval)
           /\ \A i \in 1..row_nnz : contains(got_pairs, expected_pairs[i])
  /\ o.ptr = rowptr_test
  /\ o.nnz = <<12>>

\* The checks rank 0 makes after getCcs.
CcsTestPasses(o) ==
  /\ o.nzval = nzvals_ccs_test
  /\ o.ind = rowind_test
  /\ o.ptr = colptr_test
  /\ o.nnz = <<12>>

\* const size_t numLocal = 10
numLocal == 10

\* The identity matrix of the Initialization and Dimensions tests: numLocal
\* rows on each process, each process inserting its own diagonal entries.
EyeMatrix(np) ==
  [nrows |-> numLocal * np, ncols |-> numLocal * np,
   entries |-> {<<i, i, 1>> : i \in 0..(numLocal * np - 1)}]

\* Map(INVALID, numLocal, 0, comm): numLocal contiguous rows per process.
EyeMap(np) ==
  [nprocs |-> np, owner |-> [r \in 0..(numLocal * np - 1) |-> r \div numLocal]]

-----------------------------------------------------------------------------
(* States and steps *)

Patterns == {"rank0", "owner"}

NoPrev == <<>>

\* No Apply call yet.
ApplyIdle ==
  /\ entry = "none"
  /\ trans = NOTRANS
  /\ xPre = [kind |-> "EpetraMultiVec", data |-> ZeroVec]
  /\ yPre = [kind |-> "EpetraMultiVec", data |-> ZeroVec]
  /\ same = FALSE
  /\ x = xPre
  /\ y = yPre
  /\ err = "none"
  /\ iterCalls = <<>>

\* RCP<ADAPT> adapter = rcp(new ADAPT(mat))
TheAdapter == [name |-> "adapter", mat_ |-> "mat"]

\* No extraction call yet.
ExtractIdle ==
  /\ op = "none"
  /\ phase = "constructed"
  /\ exErr = "none"
  /\ out = Buffers(0, 0, 0)
  /\ run = 1
  /\ prev = NoPrev

\* mat->insertGlobalValues(...); mat->fillComplete(): the matrix M over `map`.
Constructed(M, map) ==
  /\ logical = M
  /\ mat \in {fillComplete(M, map, InsertedOn(pattern, M, map)) : pattern \in Patterns}
  /\ pc = [p \in 0..(map.nprocs - 1) |-> "idle"]

\* MueLuEpetraPrecOp(const Teuchos::RCP<Hierarchy>& H) : Hierarchy_(H)
InitApply ==
  /\ Hierarchy_ \in Hierarchies
  /\ ApplyIdle
  /\ Constructed(TestMatrix, createUniformContigMap(nrows, 1))
  /\ ExtractIdle
  /\ adapters = {TheAdapter}
  /\ dims = <<>>

\* An Apply call on operands xv and yv, one object when s holds.
ApplyCalled(e, t, xv, yv, s, res) ==
  /\ entry' = e
  /\ trans' = t
  /\ xPre' = xv
  /\ yPre' = yv
  /\ same' = s
  /\ x' = [xv EXCEPT !.data = res.x]
  /\ y' = [yv EXCEPT !.data = res.y]
  /\ err' = res.err
  /\ iterCalls' = res.calls
  /\ UNCHANGED <<Hierarchy_, matVars, extractVars, pc, dimVars>>

\* The caller's choice of passing one object as both operands.
Aliasing(xv, yv) == IF xv = yv THEN BOOLEAN ELSE {FALSE}

\* A caller invokes the concrete-vector Apply.
CallApplyEpetra ==
  \E xv \in EpetraVec, yv \in EpetraVec, t \in ETrans :
    \E s \in Aliasing(xv, yv) :
      ApplyCalled("Epetra", t, xv, yv, s,
                  ApplyEpetra(Hierarchy_, xv.data, yv.data, t, s))

\* A caller invokes Apply through the Belos::MultiVec interface.
CallApplyMultiVec ==
  \E xv \in MultiVec, yv \in MultiVec, t \in ETrans :
    \E s \in Aliasing(xv, yv) :
      ApplyCalled("MultiVec", t, xv, yv, s,
                  ApplyMultiVec(Hierarchy_, xv, yv, t, s))

NextApply ==
  \/ CallApplyEpetra
  \/ CallApplyMultiVec

SpecApply == InitApply /\ [][NextApply]_vars

\* ---- extraction, the collective call of all processes taken as one step ----

Init ==
  /\ Hierarchy_ = [honoursInitialGuessIsZero |-> FALSE]
  /\ ApplyIdle
  /\ \E M \in SmallMatrices \cup {TestMatrix} : \E map \in RowMaps(M) : Constructed(M, map)
  /\ ExtractIdle
  /\ adapters = {TheAdapter}
  /\ dims = <<>>

\* Buffer sizes a caller may pass: exactly what is required, one of the three
\* buffers one element short, or every buffer one element longer.
BufferChoices(A, o) ==
  LET nnz == getGlobalNNZ(A)
      np == (IF o = "Crs" THEN getGlobalNumRows(A) ELSE getGlobalNumCols(A)) + 1
  IN  {Buffers(nnz, nnz, np), Buffers(nnz + 1, nnz + 1, np + 1), Buffers(nnz, nnz, np - 1)}
      \cup (IF nnz > 0 THEN {Buffers(nnz - 1, nnz, np), Buffers(nnz, nnz - 1, np)} ELSE {})

ExtractCalled(o, res) ==
  /\ op' = o
  /\ phase' = "extracted"
  /\ exErr' = res.err
  /\ out' = res.out
  /\ UNCHANGED <<applyVars, matVars, run, prev, pc, dimVars>>

\* Every process calls adapter->getCrs(...).
CallGetCrs ==
  /\ phase = "constructed"
  /\ op \in {"none", "Crs"}
  /\ \E b \in BufferChoices(mat, "Crs"), g \in Gathers(mat) :
       ExtractCalled("Crs", getCrs(mat, b, g))

\* Every process calls adapter->getCcs(...).
CallGetCcs ==
  /\ phase = "constructed"
  /\ op \in {"none", "Ccs"}
  /\ \E b \in BufferChoices(mat, "Ccs"), g \in Gathers(mat) :
       ExtractCalled("Ccs", getCcs(mat, b, g))

\* The (column, value) pairs (row, value for CCS) of slice i of the output.
Slice(o, i) ==
  LET lo == At(o.ptr, i)
      hi == At(o.ptr, i + 1)
  IN  [k \in 1..(hi - lo) |-> <<At(o.ind, lo + k - 1), At(o.nzval, lo + k - 1)>>]

Range(f) == {f[i] : i \in DOMAIN f}

\* What a run extracted, read the way its format promises: CRS as pointers and
\* per-row sets of pairs, CCS as the three arrays.
Extraction(o, A, b) ==
  IF o = "Crs"
  THEN [ptr |-> SubSeq(b.ptr, 1, A.nrows + 1),
        rows |-> [r \in 0..(A.nrows - 1) |-> Range(Slice(b, r))],
        ind |-> <<>>, nzval |-> <<>>]
  ELSE [ptr |-> SubSeq(b.ptr, 1, A.ncols + 1),
        rows |-> <<>>,
        ind |-> SubSeq(b.ind, 1, b.nnz[1]), nzval |-> SubSeq(b.nzval, 1, b.nnz[1])]

\* The same logical matrix is run again over another process count and row map.
SecondRun ==
  /\ phase = "extracted"
  /\ run = 1
  /\ exErr = "none"
  /\ \E map \in RowMaps(logical) :
       /\ map # [nprocs |-> mat.nprocs, owner |-> mat.owner]
       /\ mat' \in {fillComplete(logical, map, InsertedOn(pattern, logical, map)) :
                       pattern \in Patterns}
       /\ pc' = [p \in 0..(map.nprocs - 1) |-> "idle"]
  /\ prev' = <<Extraction(op, mat, out)>>
  /\ run' = 2
  /\ phase' = "constructed"
  /\ exErr' = "none"
  /\ out' = Buffers(0, 0, 0)
  /\ UNCHANGED <<applyVars, logical, op, dimVars>>

Next ==
  \/ CallGetCrs
  \/ CallGetCcs
  \/ SecondRun

Spec == Init /\ [][Next]_vars

\* ---- both adapters in one program ----

\* An operator over a hierarchy and an adapter over the identity matrix on one
\* process.
InitFrame ==
  /\ Hierarchy_ \in Hierarchies
  /\ ApplyIdle
  /\ Constructed(EyeMatrix(1), EyeMap(1))
  /\ ExtractIdle
  /\ adapters = {TheAdapter}
  /\ dims = <<>>

\* The concrete Apply and the extractions of the matrix, in any order.
NextFrame ==
  \/ CallApplyEpetra
  \/ CallGetCrs
  \/ CallGetCcs

SpecFrame == InitFrame /\ [][NextFrame]_vars

\* ---- extraction, process by process ----

\* The CRS or the CCS test on 1..MaxProcs processes, before any rank calls.
InitCollective ==
  /\ Hierarchy_ = [honoursInitialGuessIsZero |-> FALSE]
  /\ ApplyIdle
  /\ \E np \in 1..MaxProcs : Constructed(TestMatrix, createUniformContigMap(nrows, np))
  /\ op \in {"Crs", "Ccs"}
  /\ phase = "constructed"
  /\ exErr = "none"
  /\ out = TestBuffers(mat)
  /\ run = 1
  /\ prev = NoPrev
  /\ adapters = {TheAdapter}
  /\ dims = <<>>

\* Process p calls the extraction and enters the collective beneath it.
Enter(p) ==
  /\ pc[p] = "idle"
  /\ pc' = [pc EXCEPT ![p] = "in"]
  /\ UNCHANGED <<applyVars, matVars, extractVars, dimVars>>

\* Process p leaves the call; the root leaves with the assembled arrays.
Leave(p) ==
  /\ pc[p] = "in"
  /\ pc' = [pc EXCEPT ![p] = "returned"]
  /\ IF p = Root
     THEN \E g \in Gathers(mat) :
            LET res == IF op = "Crs" THEN getCrs(mat, out, g) ELSE getCcs(mat, out, g)
            IN  /\ exErr' = res.err
                /\ out' = res.out
                /\ phase' = "extracted"
                /\ UNCHANGED <<op, run, prev>>
     ELSE UNCHANGED extractVars
  /\ UNCHANGED <<applyVars, matVars, dimVars>>

\* The call returning on p without waiting for the other processes.
ReturnWithoutPeers(p) == Leave(p)

\* The call returns on process p: the collective beneath it completes once
\* every process is in it.
Return(p) ==
  /\ \A q \in Procs(mat) : pc[q] \in {"in", "returned"}
  /\ Leave(p)

NextCollective ==
  \/ \E p \in Procs(mat) : Enter(p)
  \/ \E p \in Procs(mat) : Return(p)

SpecCollective == InitCollective /\ [][NextCollective]_vars

\* ---- the dimension queries ----

InitDimensions ==
  /\ Hierarchy_ = [honoursInitialGuessIsZero |-> FALSE]
  /\ ApplyIdle
  /\ \/ \E M \in SmallMatrices \cup {TestMatrix} : \E map \in RowMaps(M) : Constructed(M, map)
     \/ \E np \in 1..MaxProcs : Constructed(EyeMatrix(np), EyeMap(np))
  /\ ExtractIdle
  /\ adapters = {}
  /\ dims = <<>>

\* RCP<ADAPT> adapter = rcp(new MatrixAdapter<MAT>(eye))
ConstructAdapter ==
  /\ adapters = {}
  /\ adapters' = {TheAdapter}
  /\ UNCHANGED <<applyVars, matVars, extractVars, pc, dims>>

\* The copy references the matrix the original references.
CopyOf(a) == [name |-> "adapter2", mat_ |-> a.mat_]

\* RCP<ADAPT> adapter2 = rcp(new MatrixAdapter<MAT>(*adapter))
CopyConstruct ==
  /\ \E a \in adapters : adapters' = adapters \cup {CopyOf(a)}
  /\ adapters' # adapters
  /\ UNCHANGED <<applyVars, matVars, extractVars, pc, dims>>

\* The matrix an adapter's mat_ refers to.
Deref(h) == mat

\* The queries with getLocalNNZ() called where getGlobalNNZ() is meant.
QueriesLocalForGlobal(a, p) ==
  LET A == mat
  IN  [GlobalNNZ |-> getLocalNNZ(A, p), LocalNNZ |-> getLocalNNZ(A, p),
       GlobalNumRows |-> getGlobalNumRows(A), LocalNumRows |-> getLocalNumRows(A, p),
       LocalNumCols |-> getLocalNumCols(A, p), GlobalNumCols |-> getGlobalNumCols(A),
       MaxNNZ |-> getMaxNNZ(A)]

\* What the adapter's queries report on process p.
Queries(a, p) ==
  LET A == Deref(a.mat_)
  IN  [GlobalNNZ |-> getGlobalNNZ(A), LocalNNZ |-> getLocalNNZ(A, p),
       GlobalNumRows |-> getGlobalNumRows(A), LocalNumRows |-> getLocalNumRows(A, p),
       LocalNumCols |-> getLocalNumCols(A, p), GlobalNumCols |-> getGlobalNumCols(A),
       MaxNNZ |-> getMaxNNZ(A)]

\* Process p asks an adapter for every dimension and count.
Dimensions ==
  /\ \E a \in adapters, p \in Procs(mat) :
       dims' = <<[adapter |-> a.name, proc |-> p, got |-> Queries(a, p)]>>
  /\ UNCHANGED <<applyVars, matVars, extractVars, pc, adapters>>

NextDimensions ==
  \/ ConstructAdapter
  \/ CopyConstruct
  \/ Dimensions

SpecDimensions == InitDimensions /\ [][NextDimensions]_vars

-----------------------------------------------------------------------------
(* Properties *)

CrsDone == phase = "extracted" /\ op = "Crs" /\ exErr = "none"
CcsDone == phase = "extracted" /\ op = "Ccs" /\ exErr = "none"

\* The caller passed buffers of exactly the sizes the tests pass.
TestSized == Len(out.nzval) = 12 /\ Len(out.ind) = 12 /\ Len(out.ptr) = nrows + 1

RowOf(M, r) == {t \in M.entries : Row(t) = r}
ColOf(M, c) == {t \in M.entries : Col(t) = c}

\* C1: after getCRS on the root, for every global row r the slice
\* [rowptr[r], rowptr[r+1]) of (colind, values) holds, as an unordered
\* collection, exactly the (column, value) pairs of row r of the matrix; the
\* output as a whole holds as many triples as the matrix has nonzeros and
\* outNNZ is that count; the 6x6 test matrix gives 12 and passes the CRS test.
C1_CrsSlicesAreRows ==
  CrsDone =>
    /\ \A r \in 0..(logical.nrows - 1) :
         /\ Len(Slice(out, r)) = Cardinality(RowOf(logical, r))
         /\ Range(Slice(out, r)) = {<<Col(t), Value(t)>> : t \in RowOf(logical, r)}
    /\ At(out.ptr, 0) = 0
    /\ At(out.ptr, logical.nrows) = Cardinality(logical.entries)
    /\ out.nnz = <<Cardinality(logical.entries)>>
    /\ (logical = TestMatrix => out.nnz = <<12>>)
    /\ (logical = TestMatrix /\ TestSized => CrsTestPasses(mat, out))

\* C1 happens: a matrix over two processes whose rows reach the root out of
\* global order.

C1_Witness ==
  /\ CrsDone
  /\ logical.nrows = 2
  /\ mat.nprocs = 2
  /\ mat.owner[0] = 1
  /\ mat.owner[1] = 0
  /\ Cardinality(RowOf(logical, 0)) = 1
  /\ Cardinality(RowOf(logical, 1)) = 1

\* C2: after getCCS on the root, for every global column c the slice
\* [colptr[c], colptr[c+1]) of (rowind, values) holds exactly the nonzeros of
\* column c and rowind is strictly increasing inside it; the 6x6 test matrix
\* gives the arrays the CCS test expects.
C2_CcsSlicesAreSortedColumns ==
  CcsDone =>
    /\ \A c \in 0..(logical.ncols - 1) :
         LET sl == Slice(out, c)
         IN  /\ Len(sl) = Cardinality(ColOf(logical, c))
             /\ Range(sl) = {<<Row(t), Value(t)>> : t \in ColOf(logical, c)}
             /\ \A i, j \in 1..Len(sl) : i < j => sl[i][1] < sl[j][1]
    /\ At(out.ptr, 0) = 0
    /\ out.nnz = <<Cardinality(logical.entries)>>
    /\ (logical = TestMatrix =>
          /\ SubSeq(out.ind, 1, 12) = rowind_test
          /\ SubSeq(out.nzval, 1, 12) = nzvals_ccs_test)
    /\ (logical = TestMatrix /\ TestSized => CcsTestPasses(out))

\* C2 happens: a matrix with a column of two entries whose rows reach the root
\* in decreasing order.

C2_Witness ==
  /\ CcsDone
  /\ mat.nprocs = 2
  /\ logical.nrows = 2
  /\ mat.owner[0] = 1
  /\ mat.owner[1] = 0
  /\ \E c \in 0..(logical.ncols - 1) : Cardinality(ColOf(logical, c)) = 2

\* The pointer array an extraction wrote, and its number of slices.
PtrCount == IF op = "Crs" THEN logical.nrows ELSE logical.ncols
SliceOf(M, i) == IF op = "Crs" THEN RowOf(M, i) ELSE ColOf(M, i)

\* C3: the pointer array written by getCRS (globalRows+1 elements) and by
\* getCCS (globalCols+1 elements) is non-decreasing, starts at 0 and ends at
\* the global nonzero count; a row or column without entries gives
\* ptr[i] = ptr[i+1] and no failure; the 6x6 test matrix gives
\* rowptr = [0,3,5,6,8,10,12] and colptr = [0,3,5,7,9,11,12].
C3_PointersMonotone ==
  (CrsDone \/ CcsDone) =>
    /\ Len(out.ptr) >= PtrCount + 1
    /\ At(out.ptr, 0) = 0
    /\ At(out.ptr, PtrCount) = Cardinality(logical.entries)
    /\ \A i \in 0..(PtrCount - 1) :
         /\ At(out.ptr, i) <= At(out.ptr, i + 1)
         /\ (SliceOf(logical, i) = {} => At(out.ptr, i) = At(out.ptr, i + 1))
    /\ (logical = TestMatrix =>
          SubSeq(out.ptr, 1, nrows + 1) = (IF op = "Crs" THEN rowptr_test ELSE colptr_test))

\* C3 happens: an extraction from a matrix with an empty row and an empty
\* column, over more than one process.
C3_Witness ==
  /\ CrsDone \/ CcsDone
  /\ mat.nprocs = 2
  /\ logical.entries # {}
  /\ \E i \in 0..(PtrCount - 1) : SliceOf(logical, i) = {}


\* ---- Apply ----

Called == entry # "none"

CastFails == ~DynamicCastOk(xPre) \/ ~DynamicCastOk(yPre)

\* C4 as stated: Apply with a transpose mode other than NOTRANS fails with
\* UnsupportedOperation on either entry point, for every x and y, without
\* invoking Iterate and leaving y as it was.
C4_AlwaysUnsupportedOperation ==
  (Called /\ trans # NOTRANS) =>
    /\ err = UnsupportedOperation
    /\ iterCalls = <<>>
    /\ y = yPre

\* C4: Apply with a transpose mode other than NOTRANS always fails, without
\* invoking Iterate and leaving y as it was; the failure is UnsupportedOperation
\* except on the generic entry point when an operand cannot be downcast, where
\* the downcast is tested first and the failure is InterfaceMismatch.
C4_TransposeRejected ==
  (Called /\ trans # NOTRANS) =>
    /\ err = (IF entry = "MultiVec" /\ CastFails
              THEN InterfaceMismatch ELSE UnsupportedOperation)
    /\ iterCalls = <<>>
    /\ y = yPre

\* C4 happens: a transposed Apply through the generic entry point, operands
\* of the concrete type, y holding poison.
C4_Witness ==
  /\ entry = "MultiVec"
  /\ trans = "TRANS"
  /\ ~CastFails
  /\ \A i \in 1..VecLen : yPre.data[i] = 7
  /\ err = UnsupportedOperation

\* The input the hierarchy is handed: x as the caller passed it, or zero when
\* x is the object passed as y, which has been zeroed by then.
Handed == IF same THEN ZeroVec ELSE xPre.data

\* C5: whenever Apply reaches the hierarchy, y is all zero when Iterate is
\* invoked, and the result is what Iterate makes of its input and a zero
\* initial guess: the value y held on entry reaches neither the hierarchy as
\* initial guess nor the result, whether or not the hierarchy honours
\* InitialGuessIsZero.
C5_ZeroInitialGuess ==
  /\ \A k \in 1..Len(iterCalls) : iterCalls[k].Y = ZeroVec
  /\ (Called /\ err = "none") =>
       /\ iterCalls # <<>>
       /\ y.data = Iterate(Hierarchy_, Handed, 1, ZeroVec, TRUE)

\* C5 happens: a successful Apply on a y full of poison, with a hierarchy that
\* ignores InitialGuessIsZero.
C5_Witness ==
  /\ Called
  /\ err = "none"
  /\ ~Hierarchy_.honoursInitialGuessIsZero
  /\ \A i \in 1..VecLen : yPre.data[i] = 7 /\ xPre.data[i] = 7
  /\ ~same
  /\ iterCalls # <<>>

\* C6: through the generic vector interface, when x or y cannot be downcast
\* the call fails with InterfaceMismatch, Iterate is not invoked and y is not
\* modified; when both downcasts succeed the call does what the concrete Apply
\* does with the same x, y and transpose mode.
C6_GenericEntryPoint ==
  entry = "MultiVec" =>
    IF CastFails
    THEN /\ err = InterfaceMismatch
         /\ iterCalls = <<>>
         /\ y = yPre
    ELSE Outcome(err, x.data, y.data, iterCalls)
           = ApplyEpetra(Hierarchy_, xPre.data, yPre.data, trans, same)

\* C6 happens: a generic call whose y is not of the concrete type and holds
\* poison.
C6_Witness ==
  /\ entry = "MultiVec"
  /\ DynamicCastOk(xPre)
  /\ ~DynamicCastOk(yPre)
  /\ \A i \in 1..VecLen : yPre.data[i] = 7
  /\ err = InterfaceMismatch

\* C11 as stated, for each call: a call that does not fail invokes Iterate
\* exactly once, with x as the caller passed it, iteration count 1, a zeroed
\* y and the initial-guess flag set; a failing call does not invoke it.
C11_EachCall ==
  Called => iterCalls = (IF err = "none"
                         THEN <<IterCall(xPre.data, 1, ZeroVec, TRUE)>>
                         ELSE <<>>)

\* C11 as stated, for two successive calls: with the same x and the same
\* hierarchy, two successful calls pass identical arguments to Iterate,
\* whatever y held before each.
C11_SuccessiveCalls ==
  [][(Called /\ err = "none" /\ err' = "none"
        /\ xPre'.data = xPre.data /\ Hierarchy_' = Hierarchy_)
       => iterCalls' = iterCalls]_vars

\* C11 as stated: every Apply call that does not fail invokes Iterate exactly
\* once with (x, 1, zeroed y, true), every failing call invokes it zero times,
\* and two successive calls with the same x and hierarchy pass identical
\* arguments whatever y held before each call.
C11_IterateOnceWithX == []C11_EachCall /\ C11_SuccessiveCalls

\* No step writes the hierarchy handle or the wrapped matrix.
RestUntouched ==
  [][Hierarchy_' = Hierarchy_ /\ mat' = mat /\ logical' = logical]_vars

OwnedBy(p) == {t \in logical.entries : mat.owner[Row(t)] = p}

\* C7: on every process each adapter query returns what the wrapped matrix
\* reports for the corresponding query (getGlobalNNZ the global entry count,
\* which is the sum of the local counts; getLocalNNZ the local count; the row
\* and column counts, global and local; getMaxNNZ the longest row), for the
\* adapter and for its copy.
C7_QueriesDelegate ==
  \A k \in 1..Len(dims) :
    LET p == dims[k].proc
        got == dims[k].got
    IN  /\ got.GlobalNNZ = getGlobalNumEntries(mat)
        /\ got.GlobalNNZ = SumOver([q \in Procs(mat) |-> Cardinality(OwnedBy(q))], Procs(mat))
        /\ got.GlobalNNZ = Cardinality(logical.entries)
        /\ got.LocalNNZ = getNodeNumEntries(mat, p)
        /\ got.LocalNNZ = Cardinality(OwnedBy(p))
        /\ got.GlobalNumRows = getGlobalNumRows(mat)
        /\ got.GlobalNumRows = logical.nrows
        /\ got.GlobalNumCols = getGlobalNumCols(mat)
        /\ got.GlobalNumCols = logical.ncols
        /\ got.LocalNumRows = getNodeNumRows(mat, p)
        /\ got.LocalNumCols = getNodeNumCols(mat, p)
        /\ got.LocalNumCols = Cardinality({Col(t) : t \in OwnedBy(p)})
        /\ got.MaxNNZ = getGlobalMaxNumRowEntries(mat)
        /\ got.MaxNNZ = Max({Cardinality(RowOf(logical, r)) : r \in 0..(logical.nrows - 1)})

\* C7 happens: the copy is queried on rank 1 of two, which holds some but not
\* all of the entries.
C7_Witness ==
  /\ dims # <<>>
  /\ dims[1].adapter = "adapter2"
  /\ dims[1].proc = 1
  /\ mat.nprocs = 2
  /\ 0 < dims[1].got.LocalNNZ
  /\ dims[1].got.LocalNNZ < dims[1].got.GlobalNNZ

\* The buffers passed were too short for the matrix.
ShortBuffers ==
  \/ Len(out.nzval) < Cardinality(logical.entries)
  \/ Len(out.ind) < Cardinality(logical.entries)
  \/ Len(out.ptr) < PtrCount + 1

\* C8: getCRS or getCCS with a values or index buffer shorter than
\* getGlobalNNZ(), or a pointer buffer shorter than count+1, fails with
\* SizeMismatch and writes nothing: no element of a buffer and no nnz is
\* reported (11 slots against the 12 nonzeros of the test matrix fails).
C8_ShortBuffersFail ==
  (phase = "extracted" /\ ShortBuffers) =>
    /\ exErr = SizeMismatch
    /\ out = Buffers(Len(out.nzval), Len(out.ind), Len(out.ptr))

\* C8 happens: the test matrix with room for 11 values.
C8_Witness ==
  /\ phase = "extracted"
  /\ logical = TestMatrix
  /\ Len(out.nzval) = 11
  /\ Len(out.ind) = 12
  /\ exErr = SizeMismatch

\* C9: a second run on the same logical matrix over another process count or
\* row map (whoever inserted the entries) extracts what the first run did:
\* getCRS the same rowptr and the same set of (column, value) pairs per row,
\* getCCS the same colptr, rowind and values; the test matrix passes its test
\* on every process count.
C9_SameOverPartitions ==
  (run = 2 /\ phase = "extracted" /\ exErr = "none") =>
    /\ prev = <<Extraction(op, mat, out)>>
    /\ (logical = TestMatrix /\ TestSized =>
          IF op = "Crs" THEN CrsTestPasses(mat, out) ELSE CcsTestPasses(out))

\* C9 happens: a second run over two processes that hold the rows in
\* decreasing order, on a matrix with an entry in each of two rows.
C9_Witness ==
  /\ run = 2
  /\ phase = "extracted"
  /\ exErr = "none"
  /\ mat.nprocs = 2
  /\ logical.nrows = 2
  /\ mat.owner[0] = 1
  /\ mat.owner[1] = 0
  /\ RowOf(logical, 0) # {}
  /\ RowOf(logical, 1) # {}

\* C10: the extraction returns on a process only when every process of the
\* matrix's communicator has entered it; while a process has not called, none
\* of the callers has returned.
C10_ReturnsAfterAllEntered ==
  \A p \in Procs(mat) :
    pc[p] = "returned" => \A q \in Procs(mat) : pc[q] \in {"in", "returned"}

\* C10 happens: every rank has called, the root has returned with the arrays
\* and rank 1 is still inside.
C10_Witness ==
  /\ mat.nprocs = 2
  /\ pc[0] = "returned"
  /\ pc[1] = "in"
  /\ phase = "extracted"

=============================================================================
